---- MODULE Spec2Model ----
(***************************************************************************)
(* Model of trashy_rm (src/trashy_rm.py): the command line option parser   *)
(* parse_opts, working on the ExecConfig class, and the configuration      *)
(* loader load_app_config.                                                 *)
(*                                                                         *)
(* A Python str is modelled as the sequence of its characters, so that     *)
(* startswith, slicing and list(str) are computed as the code computes     *)
(* them.                                                                   *)
(***************************************************************************)
EXTENDS Integers, Sequences, FiniteSets, TLC

VARIABLES
    ExecConfig_targets, \* the list object bound to the class attribute ExecConfig.targets
    pc,                 \* position of the process: "idle", "loop", "for", "returned", "raised"
    opts,               \* argument of the running (or last) parse_opts call
    pos,                \* number of tokens the iterator `it` has yielded
    conf,               \* instance attributes of the ExecConfig built by the call
    cluster,            \* options of the current token the for loop has still to handle
    calls,              \* number of parse_opts calls started in this process
    given,              \* number of tokens given to the calls of this process so far
    history,            \* earlier calls that ended: their argument, outcome and request
    pre_targets,        \* contents of ExecConfig.targets when the running call started
    file_names,         \* argument of load_app_config: the files its names stand for, in order
    lpc,                \* position of load_app_config: "idle", "read", "done", "raised"
    parser,             \* the configparser.ConfigParser of the call
    app_conf,           \* the AppConfig the call returns
    pieces,             \* the pieces a configured path is written with
    xpc,                \* position of the expansion of the path: "idle", "call", "done"
    expanded,           \* the path as expanduser(expandvars(path)) returns it
    run_opts,           \* argument opts of run: the ExecConfig
    run_conf,           \* argument conf of run: the AppConfig
    fs,                 \* what the file system holds under each target name
    rpc,                \* position of run: "idle", "call", "returned", "raised"
    exit_code,          \* the value run returns
    out,                \* what run has written to the stream out
    err,                \* what run has written to the stream err
    effects             \* prompts issued and removals done by run, in order

parse_vars == <<ExecConfig_targets, pc, opts, pos, conf, cluster, calls, given, history, pre_targets>>
load_vars == <<file_names, lpc, parser, app_conf>>
expand_vars == <<pieces, xpc, expanded>>
run_vars == <<run_opts, run_conf, fs, rpc, exit_code, out, err, effects>>
vars == <<parse_vars, load_vars, expand_vars, run_vars>>

----------------------------------------------------------------------------
(* Bounds *)

\* number of tokens given to the parse_opts calls of one process, all calls together
MaxTokens == 3
\* number of parse_opts calls in one process
MaxCalls == 2

----------------------------------------------------------------------------
(* Tokens: Python strings as character sequences *)

T_a == <<"a">>
T_b == <<"b">>
T_dashdash == <<"-", "-">>
T_dash == <<"-">>
T_fh_ == <<"-", "f", "h", "-">>
T_vd == <<"-", "v", "d">>
T_w == <<"-", "w">>
T_what == <<"-", "-", "w", "h", "a", "t">>
T_help == <<"-", "-", "h", "e", "l", "p">>
T_get_trash == <<"-", "-", "g", "e", "t", "-", "t", "r", "a", "s", "h">>
T_direct == <<"-", "-", "d", "i", "r", "e", "c", "t">>
T_i == <<"-", "i">>
T_I == <<"-", "I">>
T_c == <<"-", "c">>
T_fhv == <<"-", "f", "h", "v">>
T_version == <<"-", "-", "v", "e", "r", "s", "i", "o", "n">>
T_interactive_never ==
    <<"-", "-", "i", "n", "t", "e", "r", "a", "c", "t", "i", "v", "e", "=", "n", "e", "v", "e", "r">>

\* the tokens the streams of the model are made of
Tokens == {T_a, T_b, T_dashdash, T_dash, T_fh_, T_vd, T_w, T_what, T_help,
           T_get_trash, T_direct, T_i}

\* the tokens of the streams that are made of the documented options
OptionTokens == {T_a, T_dashdash, T_version, T_i, T_I, T_interactive_never, T_c,
                 T_direct, T_vd, T_fh_}

\* the tokens of the streams a cluster of short options is separated in
ClusterTokens == {T_a, T_dashdash, T_vd, T_fhv, T_w, T_i}

\* the long option names parse_opts compares with, as opt[1:] gives them
L_force == <<"-", "f", "o", "r", "c", "e">>
L_dir == <<"-", "d", "i", "r">>
L_recursive == <<"-", "r", "e", "c", "u", "r", "s", "i", "v", "e">>
L_verbose == <<"-", "v", "e", "r", "b", "o", "s", "e">>
L_interactive == <<"-", "i", "n", "t", "e", "r", "a", "c", "t", "i", "v", "e">>
L_interactive_always == L_interactive \o <<"=", "a", "l", "w", "a", "y", "s">>
L_interactive_yes == L_interactive \o <<"=", "y", "e", "s">>
L_interactive_once == L_interactive \o <<"=", "o", "n", "c", "e">>
L_interactive_never == L_interactive \o <<"=", "n", "e", "v", "e", "r">>
L_interactive_no == L_interactive \o <<"=", "n", "o">>
L_interactive_none == L_interactive \o <<"=", "n", "o", "n", "e">>
L_help == <<"-", "h", "e", "l", "p">>
L_get_trash == <<"-", "g", "e", "t", "-", "t", "r", "a", "s", "h">>
L_recycle == <<"-", "r", "e", "c", "y", "c", "l", "e">>
L_direct == <<"-", "d", "i", "r", "e", "c", "t">>
L_shred == <<"-", "s", "h", "r", "e", "d">>
L_dryrun == <<"-", "d", "r", "y", "r", "u", "n">>

----------------------------------------------------------------------------
(* String helpers *)

\* s.startswith(p)
StartsWith(s, p) == Len(s) >= Len(p) /\ SubSeq(s, 1, Len(p)) = p

\* s[1:]
DropFirst(s) == SubSeq(s, 2, Len(s))

\* list(s): the one-character strings of s
CharList(s) == [i \in 1..Len(s) |-> <<s[i]>>]

\* all sequences over S of length at most n
SeqsUpTo(S, n) == UNION {[1..k -> S] : k \in 0..n}

----------------------------------------------------------------------------
(* ExecConfig: the class attributes a fresh instance reads *)

ExecConfig ==
    [help |-> FALSE, get_trash |-> FALSE, version |-> FALSE, force |-> FALSE,
     interactive_mode |-> "NORMAL", handle_dirs |-> FALSE, recursive |-> FALSE,
     verbose |-> FALSE, trash_mode |-> "NORMAL", shred |-> FALSE,
     dry_run |-> FALSE, read_targets |-> FALSE]

\* request.targets: no instance ever gets a list of its own (append and +=
\* work in place on the list found through the class), so the attribute of
\* every request, whenever it was built, is the one list of the class
TargetsOf(request, class_targets) == class_targets

----------------------------------------------------------------------------
(* parse_opts *)

\* a chain without the branch of '--'
TokenKind_NoRest(opt) ==
    IF opt = T_dash THEN "stdin"
    ELSE IF ~StartsWith(opt, <<"-">>) THEN "target"
    ELSE "option"

\* the if / elif chain on the token
TokenKind(opt) ==
    IF opt = T_dashdash THEN "rest"
    ELSE IF opt = T_dash THEN "stdin"
    ELSE IF ~StartsWith(opt, <<"-">>) THEN "target"
    ELSE "option"

\* a for loop over the one option opt[1:], whatever the token
OptList_NoSplit(opt) == <<DropFirst(opt)>>

\* [opt[1:]] if opt.startswith('--') else list(opt[1:])
OptList(opt) ==
    IF StartsWith(opt, <<"-", "-">>) THEN <<DropFirst(opt)>>
    ELSE CharList(DropFirst(opt))

\* a halting branch that sets the flag and goes on with the next option
HaltOpt_NoStop(c, flag) ==
    [conf |-> IF flag = "help" THEN [c EXCEPT !.help = TRUE]
              ELSE [c EXCEPT !.get_trash = TRUE],
     ctl |-> "next"]

\* the branches of help and get-trash: the flag is set, StopIteration is raised
HaltOpt(c, flag) ==
    [conf |-> IF flag = "help" THEN [c EXCEPT !.help = TRUE]
              ELSE [c EXCEPT !.get_trash = TRUE],
     ctl |-> "stop"]

\* a last branch that lets an option it does not know pass
InvalidOpt_Ignored(c, o) == [conf |-> c, ctl |-> "next"]

\* the last branch: raise OptParseError
InvalidOpt(c, o) == [conf |-> c, ctl |-> "error"]

\* a mode branch that leaves a mode an earlier option has set
ModeOpt_FirstWins(c, field, value) ==
    [conf |-> IF field = "interactive_mode"
                  THEN IF c.interactive_mode = "NORMAL"
                           THEN [c EXCEPT !.interactive_mode = value] ELSE c
              ELSE IF c.trash_mode = "NORMAL" THEN [c EXCEPT !.trash_mode = value] ELSE c,
     ctl |-> "next"]

\* the branches of the interactive and trash modes: the mode is assigned
ModeOpt(c, field, value) ==
    [conf |-> IF field = "interactive_mode" THEN [c EXCEPT !.interactive_mode = value]
              ELSE [c EXCEPT !.trash_mode = value],
     ctl |-> "next"]

\* the body of the for loop: the effect of one option o on the request c;
\* ctl says how the loop goes on: "next", "stop" (StopIteration raised by
\* the code) or "error" (OptParseError)
ApplyOpt(c, o) ==
    IF o = <<"f">> \/ o = L_force
        THEN [conf |-> [c EXCEPT !.force = TRUE], ctl |-> "next"]
    ELSE IF o = <<"d">> \/ o = L_dir
        THEN [conf |-> [c EXCEPT !.handle_dirs = TRUE], ctl |-> "next"]
    ELSE IF o = <<"r">> \/ o = L_recursive
        THEN [conf |-> [c EXCEPT !.recursive = TRUE], ctl |-> "next"]
    ELSE IF o = <<"v">> \/ o = L_verbose
        THEN [conf |-> [c EXCEPT !.verbose = TRUE], ctl |-> "next"]
    ELSE IF o = <<"i">> \/ o = L_interactive \/ o = L_interactive_always
            \/ o = L_interactive_yes
        THEN ModeOpt(c, "interactive_mode", "ALWAYS")
    ELSE IF o = <<"I">> \/ o = L_interactive_once
        THEN ModeOpt(c, "interactive_mode", "NORMAL")
    ELSE IF o = L_interactive_never \/ o = L_interactive_no
            \/ o = L_interactive_none
        THEN ModeOpt(c, "interactive_mode", "NEVER")
    ELSE IF o = <<"h">> \/ o = L_help
        THEN HaltOpt(c, "help")
    ELSE IF o = L_get_trash
        THEN HaltOpt(c, "get_trash")
    ELSE IF o = <<"c">> \/ o = L_recycle
        THEN ModeOpt(c, "trash_mode", "ALWAYS")
    ELSE IF o = L_direct
        THEN ModeOpt(c, "trash_mode", "NEVER")
    ELSE IF o = <<"s">> \/ o = L_shred
        THEN [conf |-> [c EXCEPT !.shred = TRUE], ctl |-> "next"]
    ELSE IF o = L_dryrun
        THEN [conf |-> [c EXCEPT !.dry_run = TRUE], ctl |-> "next"]
    ELSE InvalidOpt(c, o)

\* a process that has imported the module and not called parse_opts yet
ParseInit ==
    /\ ExecConfig_targets = <<>>
    /\ pc = "idle"
    /\ opts = <<>>
    /\ pos = 0
    /\ conf = ExecConfig
    /\ cluster = <<>>
    /\ calls = 0
    /\ given = 0
    /\ history = <<>>
    /\ pre_targets = <<>>

\* the call that ended, as later calls of the process see it
Ended ==
    [opts |-> opts, outcome |-> pc, conf |-> conf,
     targets |-> TargetsOf(conf, ExecConfig_targets)]

\* parse_opts(o), o a stream of tokens of S: conf = ExecConfig(); it = iter(opts)
CallFrom(S) ==
    /\ pc \in {"idle", "returned", "raised"}
    /\ calls < MaxCalls
    /\ \E o \in SeqsUpTo(S, MaxTokens - given) :
           /\ opts' = o
           /\ given' = given + Len(o)
    /\ history' = IF pc = "idle" THEN history ELSE Append(history, Ended)
    /\ calls' = calls + 1
    /\ conf' = ExecConfig
    /\ pos' = 0
    /\ cluster' = <<>>
    /\ pre_targets' = ExecConfig_targets
    /\ pc' = "loop"
    /\ UNCHANGED <<ExecConfig_targets, load_vars, expand_vars, run_vars>>

\* parse_opts on a stream of the tokens of the tests
Call == CallFrom(Tokens)

\* parse_opts on a stream of the documented options
CallOptions == CallFrom(OptionTokens)

\* the one-character options parse_opts has a branch for
ShortOpts == {"f", "d", "r", "v", "i", "I", "h", "c", "s"}

\* a token '-c1..cn' of two or more one-character options
IsCluster(opt) ==
    /\ Len(opt) > 2
    /\ opt[1] = "-"
    /\ \A i \in 2..Len(opt) : opt[i] \in ShortOpts

\* the tokens '-c1', ..., '-cn' of the cluster '-c1..cn'
Separate(opt) == [i \in 1..(Len(opt) - 1) |-> <<"-", opt[i + 1]>>]

\* the stream with the cluster at position k replaced by its separate tokens
SplitAt(stream, k) ==
    SubSeq(stream, 1, k - 1) \o Separate(stream[k]) \o SubSeq(stream, k + 1, Len(stream))

\* the first call of a process, on a stream that may have clusters
CallCluster == pc = "idle" /\ CallFrom(ClusterTokens)

\* a call in a process of its own (the class list is the empty list the
\* import leaves) on the stream of the call before with one of its clusters
\* separated
CallSplit ==
    /\ pc \in {"returned", "raised"}
    /\ calls = 1
    /\ \E k \in DOMAIN opts :
           /\ IsCluster(opts[k])
           /\ opts' = SplitAt(opts, k)
    /\ history' = Append(history, Ended)
    /\ calls' = calls + 1
    /\ conf' = ExecConfig
    /\ pos' = 0
    /\ cluster' = <<>>
    /\ ExecConfig_targets' = <<>>
    /\ pre_targets' = <<>>
    /\ pc' = "loop"
    /\ UNCHANGED <<given, load_vars, expand_vars, run_vars>>

\* next(it) raises StopIteration: break, return conf
Return ==
    /\ pc = "loop"
    /\ pos = Len(opts)
    /\ pc' = "returned"
    /\ UNCHANGED <<ExecConfig_targets, opts, pos, conf, cluster, calls, given, history, pre_targets, load_vars, expand_vars, run_vars>>

\* opt = next(it), then one of the first three branches, or the start of the for loop
Token ==
    /\ pc = "loop"
    /\ pos < Len(opts)
    /\ LET opt == opts[pos + 1]
           kind == TokenKind(opt)
       IN  /\ pos' = IF kind = "rest" THEN Len(opts) ELSE pos + 1
           /\ ExecConfig_targets' =
                 IF kind = "rest"
                     THEN ExecConfig_targets \o SubSeq(opts, pos + 2, Len(opts))
                 ELSE IF kind = "target" THEN Append(ExecConfig_targets, opt)
                 ELSE ExecConfig_targets
           /\ conf' = IF kind = "stdin" THEN [conf EXCEPT !.read_targets = TRUE] ELSE conf
           /\ cluster' = IF kind = "option" THEN OptList(opt) ELSE <<>>
           /\ pc' = IF kind = "option" THEN "for" ELSE "loop"
    /\ UNCHANGED <<opts, calls, given, history, pre_targets, load_vars, expand_vars, run_vars>>

\* one iteration of the for loop
Option ==
    /\ pc = "for"
    /\ cluster # <<>>
    /\ LET r == ApplyOpt(conf, Head(cluster))
       IN  /\ conf' = r.conf
           /\ pc' = CASE r.ctl = "next" -> "for"
                      [] r.ctl = "stop" -> "returned"
                      [] r.ctl = "error" -> "raised"
           /\ cluster' = IF r.ctl = "next" THEN Tail(cluster) ELSE cluster
    /\ UNCHANGED <<ExecConfig_targets, opts, pos, calls, given, history, pre_targets, load_vars, expand_vars, run_vars>>

\* the for loop is exhausted: back to the while loop
EndFor ==
    /\ pc = "for"
    /\ cluster = <<>>
    /\ pc' = "loop"
    /\ UNCHANGED <<ExecConfig_targets, opts, pos, conf, cluster, calls, given, history, pre_targets, load_vars, expand_vars, run_vars>>

----------------------------------------------------------------------------
(* Configuration files *)

\* the environment of the process, os.environ
N_HOME == <<"H", "O", "M", "E">>
N_M == <<"M">>
N_T == <<"T">>
Environ ==
    (N_HOME :> <<"/", "h", "$", "M">>) @@ (N_M :> <<"/", "m">>) @@ (N_T :> <<"~">>)

\* the characters \w matches, among those the model's strings are made of
WordChars == {"H", "O", "M", "E", "U", "T", "h", "o", "m", "e", "t", "p", "n", "d"}

\* option names of [trash_path]
K_home == <<"h", "o", "m", "e">>
K_Home == <<"H", "o", "m", "e">>
K_tmp == <<"t", "m", "p">>
Keys == {K_home, K_Home, K_tmp}

\* values of [trash_path] options, as the files give them
P_n == <<"/", "n">>
P_tilde == <<"~">>
P_unset == <<"$", "U", "/", "t">>
P_var == <<"$", "M", "/", "d">>
P_empty == <<>>
RawPaths == {P_n, P_tilde, P_unset, P_var, P_empty}

\* values of the cutoff option of [prompt]; None (no text of characters) when
\* the file has no such option
None == <<"None">>
CutoffTexts == {<<"9">>, <<"5">>, <<"x">>}

\* number of files given to load_app_config
MaxFiles == 3
\* number of options the files of one call declare, all files and sections together
MaxDecls == 2

\* a name that is no file
MissingFile == [exists |-> FALSE, cutoff |-> None, trash_path |-> <<>>]

Decl == [key : Keys, value : RawPaths]

\* the number of options a file declares
DeclaredIn(file) == (IF file.cutoff = None THEN 0 ELSE 1) + Len(file.trash_path)

\* the files that declare at most d options
Files(d) ==
    {MissingFile} \cup
    UNION {[exists : {TRUE}, cutoff : {None}, trash_path : [1..k -> Decl]] : k \in 0..d} \cup
    UNION {[exists : {TRUE}, cutoff : CutoffTexts, trash_path : [1..k -> Decl]]
           : k \in 0..(d - 1)}

RECURSIVE Declared(_)
\* the number of options the files of a list declare
Declared(files) ==
    IF files = <<>> THEN 0 ELSE DeclaredIn(Head(files)) + Declared(Tail(files))

----------------------------------------------------------------------------
(* configparser.ConfigParser, as load_app_config uses it: the sections      *)
(* [prompt] (option cutoff) and [trash_path], values without '%'            *)

\* str.lower of one character
LowerChar(ch) ==
    CASE ch = "H" -> "h" [] ch = "O" -> "o" [] ch = "M" -> "m" [] ch = "E" -> "e"
      [] ch = "U" -> "u" [] OTHER -> ch

\* ConfigParser.optionxform: option names are lower-cased
OptionXForm(key) == [i \in 1..Len(key) |-> LowerChar(key[i])]

NewParser == [cutoff |-> None, trash_path |-> <<>>, sections |-> {}]

\* the index of option key in a section, 0 when the section has no such option
IndexOf(section, key) ==
    IF \E i \in 1..Len(section) : section[i].key = key
        THEN CHOOSE i \in 1..Len(section) : section[i].key = key
    ELSE 0

\* a section that takes a declared option as a new one each time
SetOption_AppendAlways(section, key, value) ==
    Append(section, [key |-> key, value |-> value])

\* a section that keeps the value an option has
SetOption_KeepFirst(section, key, value) ==
    IF IndexOf(section, key) = 0 THEN Append(section, [key |-> key, value |-> value])
    ELSE section

\* section[key] = value on the dict of a section: a new option goes last,
\* an option the section has keeps its place and takes the value
SetOption(section, key, value) ==
    IF IndexOf(section, key) = 0 THEN Append(section, [key |-> key, value |-> value])
    ELSE [section EXCEPT ![IndexOf(section, key)].value = value]

RECURSIVE SetOptions(_, _)
\* the options of one file put into a section, in the order of the file
SetOptions(section, decls) ==
    IF decls = <<>> THEN section
    ELSE SetOptions(SetOption(section, OptionXForm(Head(decls).key), Head(decls).value),
                    Tail(decls))

\* a cutoff the first file that gives one decides
SetCutoff_KeepFirst(old, new) == IF old = None THEN new ELSE old

\* the cutoff option of [prompt] after a file that gives new (None: the file gives none)
SetCutoff(old, new) == IF new = None THEN old ELSE new

\* a strict parser refuses a file that declares an option twice in a section
HasDuplicateOption(file) ==
    \E i, j \in 1..Len(file.trash_path) :
        i # j /\ OptionXForm(file.trash_path[i].key) = OptionXForm(file.trash_path[j].key)

\* parser.read(file_name) for a file that is read without error
Read(p, file) ==
    IF ~file.exists THEN p
    ELSE [cutoff |-> SetCutoff(p.cutoff, file.cutoff),
          trash_path |-> SetOptions(p.trash_path, file.trash_path),
          sections |-> p.sections
                       \cup (IF file.cutoff # None THEN {"prompt"} ELSE {})
                       \cup (IF file.trash_path # <<>> THEN {"trash_path"} ELSE {})]

\* int() of one decimal digit
DigitValue(ch) ==
    CASE ch = "0" -> 0 [] ch = "1" -> 1 [] ch = "2" -> 2 [] ch = "3" -> 3 [] ch = "4" -> 4
      [] ch = "5" -> 5 [] ch = "6" -> 6 [] ch = "7" -> 7 [] ch = "8" -> 8 [] ch = "9" -> 9
      [] OTHER -> -1

IsInt(text) == text # <<>> /\ \A i \in 1..Len(text) : DigitValue(text[i]) >= 0

RECURSIVE IntOf(_)
\* int(text) for a text of decimal digits
IntOf(text) ==
    IF text = <<>> THEN 0
    ELSE 10 * IntOf(SubSeq(text, 1, Len(text) - 1)) + DigitValue(text[Len(text)])

----------------------------------------------------------------------------
(* os.path.expandvars and os.path.expanduser (posixpath) *)

\* the end of the match of \$(\w+|\{[^}]*\}) at the '$' at position k, 0 when none
MatchEnd(path, k) ==
    IF k >= Len(path) \/ path[k] # "$" THEN 0
    ELSE IF path[k + 1] \in WordChars
        THEN CHOOSE e \in (k + 1)..Len(path) :
                 /\ \A x \in (k + 1)..e : path[x] \in WordChars
                 /\ (e = Len(path) \/ path[e + 1] \notin WordChars)
    ELSE IF path[k + 1] = "{" /\ \E e \in (k + 2)..Len(path) : path[e] = "}"
        THEN CHOOSE e \in (k + 2)..Len(path) :
                 /\ path[e] = "}"
                 /\ \A x \in (k + 2)..(e - 1) : path[x] # "}"
    ELSE 0

\* the variable name of the match at k that ends at e: the braces are stripped
MatchName(path, k, e) ==
    IF path[k + 1] = "{" THEN SubSeq(path, k + 2, e - 1) ELSE SubSeq(path, k + 1, e)

RECURSIVE ExpandVarsFrom(_, _)
\* the while loop of expandvars: i is the index the next search starts at
ExpandVarsFrom(path, i) ==
    LET starts == {k \in (i + 1)..Len(path) : MatchEnd(path, k) > 0}
    IN  IF starts = {} THEN path
        ELSE LET k == CHOOSE x \in starts : \A y \in starts : x <= y
                 e == MatchEnd(path, k)
                 name == MatchName(path, k, e)
             IN  IF name \in DOMAIN Environ
                     THEN LET head == SubSeq(path, 1, k - 1) \o Environ[name]
                          IN  ExpandVarsFrom(head \o SubSeq(path, e + 1, Len(path)), Len(head))
                 ELSE ExpandVarsFrom(path, e)

ExpandVars(path) == ExpandVarsFrom(path, 0)

\* s.rstrip('/')
RECURSIVE RStripSlash(_)
RStripSlash(s) ==
    IF s # <<>> /\ s[Len(s)] = "/" THEN RStripSlash(SubSeq(s, 1, Len(s) - 1)) ELSE s

\* expanduser: '~' alone or before '/' is $HOME; '~name' of an unknown user stays
ExpandUser(path) ==
    IF ~StartsWith(path, <<"~">>) THEN path
    ELSE LET slashes == {x \in 2..Len(path) : path[x] = "/"}
             i == IF slashes = {} THEN Len(path) + 1
                  ELSE CHOOSE x \in slashes : \A y \in slashes : x <= y
         IN  IF i # 2 THEN path
             ELSE LET r == RStripSlash(Environ[N_HOME]) \o SubSeq(path, i, Len(path))
                  IN  IF r = <<>> THEN <<"/">> ELSE r

\* an expansion that replaces '~' first and the variables after
Expand_UserFirst(path) == ExpandVars(ExpandUser(path))

\* os.path.expanduser(os.path.expandvars(path))
Expand(path) == ExpandUser(ExpandVars(path))

----------------------------------------------------------------------------
(* load_app_config *)

DEFAULT_CUTOFF == 3

\* AppConfig(): the default cutoff and a list of its own
AppConfig == [cutoff |-> DEFAULT_CUTOFF, trashy_dirs |-> <<>>]

\* [expand(path) for _, path in parser.items('trash_path')]
ExpandedItems(section) == [i \in 1..Len(section) |-> Expand(section[i].value)]

\* no load_app_config call is running
LoadIdle ==
    /\ file_names = <<>>
    /\ lpc = "idle"
    /\ parser = NewParser
    /\ app_conf = AppConfig

\* load_app_config(file_names): parser = ConfigParser(); conf = AppConfig();
\* file_names holds the names the for loop has taken from the argument
LoadInit ==
    /\ file_names = <<>>
    /\ lpc = "read"
    /\ parser = NewParser
    /\ app_conf = AppConfig

\* one iteration of the for loop: parser.read(file_name), for any next file
ReadFile ==
    /\ lpc = "read"
    /\ Len(file_names) < MaxFiles
    /\ \E file \in Files(MaxDecls - Declared(file_names)) :
           /\ file_names' = Append(file_names, file)
           /\ IF file.exists /\ HasDuplicateOption(file)
                  THEN /\ lpc' = "raised"
                       /\ UNCHANGED parser
              ELSE /\ parser' = Read(parser, file)
                   /\ UNCHANGED lpc
    /\ UNCHANGED <<app_conf, parse_vars, expand_vars, run_vars>>

\* the end of the loop and the statements after it: the cutoff, the trash
\* directories, return conf
Finish ==
    /\ lpc = "read"
    /\ IF parser.cutoff # None /\ ~IsInt(parser.cutoff)
           THEN /\ lpc' = "raised"
                /\ UNCHANGED app_conf
       ELSE /\ lpc' = "done"
            /\ app_conf' =
                  [cutoff |-> IF parser.cutoff # None THEN IntOf(parser.cutoff)
                              ELSE app_conf.cutoff,
                   trashy_dirs |-> IF "trash_path" \in parser.sections
                                       THEN app_conf.trashy_dirs
                                            \o ExpandedItems(parser.trash_path)
                                   ELSE app_conf.trashy_dirs]
    /\ UNCHANGED <<file_names, parser, parse_vars, expand_vars, run_vars>>

----------------------------------------------------------------------------
(* The expansion of one configured path, as load_app_config does it *)

\* the pieces the paths are written with: text, and references to variables
\* that are set (M, T, HOME) and to one that is not (U)
X_tilde == <<"~">>
X_slash == <<"/">>
X_dash == <<"-">>
X_dollar == <<"$">>
X_M == <<"$", "M">>
X_braceM == <<"$", "{", "M", "}">>
X_U == <<"$", "U">>
X_braceU == <<"$", "{", "U", "}">>
X_T == <<"$", "T">>
X_HOME == <<"$", "H", "O", "M", "E">>
Pieces == {X_tilde, X_slash, X_dash, X_dollar, X_M, X_braceM, X_U, X_braceU, X_T, X_HOME}

\* number of pieces of a path
MaxPieces == 3

RECURSIVE Concat(_)
\* the string the pieces make
Concat(ps) == IF ps = <<>> THEN <<>> ELSE Head(ps) \o Concat(Tail(ps))

\* no path is being expanded
ExpandIdle ==
    /\ pieces = <<>>
    /\ xpc = "idle"
    /\ expanded = <<>>

\* a path of a [trash_path] section is about to be expanded
ExpandInit ==
    /\ pieces \in SeqsUpTo(Pieces, MaxPieces)
    /\ xpc = "call"
    /\ expanded = <<>>

\* os.path.expanduser(os.path.expandvars(path))
ExpandPath ==
    /\ xpc = "call"
    /\ expanded' = Expand(Concat(pieces))
    /\ xpc' = "done"
    /\ UNCHANGED <<pieces, parse_vars, load_vars, run_vars>>

----------------------------------------------------------------------------
(* run *)

\* the module docstring, the usage text
Usage == "Usage: trashy_rm [OPTION].. [FILE]..."

\* the names of the targets of a run
TargetNames == {T_a, T_b}

\* what a name can be in the file system
FileKinds == {"missing", "file", "file_in_trashy_dir", "dir", "dir_in_trashy_dir"}

\* number of targets of a run
MaxTargets == 2

\* cutoffs of the AppConfig given to run, beside the default
SmallCutoff == 1

\* the requests run is called with
Requests ==
    {[ExecConfig EXCEPT !.help = h, !.force = f, !.shred = s, !.recursive = r,
                        !.interactive_mode = im, !.trash_mode = tm]
        : h \in BOOLEAN, f \in BOOLEAN, s \in BOOLEAN, r \in BOOLEAN,
          im \in {"NEVER", "NORMAL", "ALWAYS"}, tm \in {"NEVER", "NORMAL", "ALWAYS"}}

\* a help branch that goes on to the removal after the usage text
RunHelp_FallsThrough(o) ==
    [rpc |-> "raised", exit_code |-> <<>>, out |-> <<Usage>>, err |-> <<>>,
     effects |-> <<>>]

\* the help branch: out.write(__doc__); return 0
RunHelp(o) ==
    [rpc |-> "returned", exit_code |-> <<0>>, out |-> <<Usage>>, err |-> <<>>,
     effects |-> <<>>]

\* an else branch that asks before it raises when the mode is Always
RunRest_PromptAlways(o, c, targets, files) ==
    [rpc |-> "raised", exit_code |-> <<>>, out |-> <<>>, err |-> <<>>,
     effects |-> IF o.interactive_mode = "ALWAYS" /\ targets # <<>>
                     THEN <<[action |-> "Prompt", target |-> targets[1]]>>
                 ELSE <<>>]

\* the else branch: raise NotImplementedError()
RunRest(o, c, targets, files) ==
    [rpc |-> "raised", exit_code |-> <<>>, out |-> <<>>, err |-> <<>>, effects |-> <<>>]

\* run is not called
RunIdle ==
    /\ run_opts = ExecConfig
    /\ run_conf = AppConfig
    /\ fs = [n \in TargetNames |-> "missing"]
    /\ rpc = "idle"
    /\ exit_code = <<>>
    /\ out = <<>>
    /\ err = <<>>
    /\ effects = <<>>

\* run(sys_info, conf, opts, inp, out, err) is called with empty streams
RunInit ==
    /\ run_opts \in Requests
    /\ run_conf \in {[AppConfig EXCEPT !.cutoff = n] : n \in {SmallCutoff, DEFAULT_CUTOFF}}
    /\ fs \in [TargetNames -> FileKinds]
    /\ rpc = "call"
    /\ exit_code = <<>>
    /\ out = <<>>
    /\ err = <<>>
    /\ effects = <<>>

\* the body of run
Run ==
    /\ rpc = "call"
    /\ LET r == IF run_opts.help THEN RunHelp(run_opts)
                ELSE RunRest(run_opts, run_conf,
                             TargetsOf(run_opts, ExecConfig_targets), fs)
       IN  /\ rpc' = r.rpc
           /\ exit_code' = r.exit_code
           /\ out' = out \o r.out
           /\ err' = err \o r.err
           /\ effects' = effects \o r.effects
    /\ UNCHANGED <<run_opts, run_conf, fs, parse_vars, load_vars, expand_vars>>

----------------------------------------------------------------------------
(* Specifications *)

Init == ParseInit /\ LoadIdle /\ ExpandIdle /\ RunIdle

Next == Call \/ Return \/ Token \/ Option \/ EndFor

Spec == Init /\ [][Next]_vars

\* one load_app_config call on any list of files
InitLoad == ParseInit /\ LoadInit /\ ExpandIdle /\ RunIdle

NextLoad == ReadFile \/ Finish

SpecLoad == InitLoad /\ [][NextLoad]_vars

\* the expansion of any path
InitExpand == ParseInit /\ LoadIdle /\ ExpandInit /\ RunIdle

NextExpand == ExpandPath

SpecExpand == InitExpand /\ [][NextExpand]_vars

\* a process whose request has any targets, as a parse has left them in the
\* list of the class
InitRun ==
    /\ ExecConfig_targets \in SeqsUpTo(TargetNames, MaxTargets)
    /\ pc = "idle" /\ opts = <<>> /\ pos = 0 /\ conf = ExecConfig /\ cluster = <<>>
    /\ calls = 0 /\ given = 0 /\ history = <<>> /\ pre_targets = <<>>
    /\ LoadIdle /\ ExpandIdle /\ RunInit

NextRun == Run

SpecRun == InitRun /\ [][NextRun]_vars

\* processes that call parse_opts on streams of the documented options
NextOptions == CallOptions \/ Return \/ Token \/ Option \/ EndFor

SpecOptions == Init /\ [][NextOptions]_vars

\* a call on a stream with clusters, then a call on the stream with one
\* cluster separated
NextCluster == CallCluster \/ CallSplit \/ Return \/ Token \/ Option \/ EndFor

SpecCluster == Init /\ [][NextCluster]_vars

----------------------------------------------------------------------------
(* What the documentation says of a token stream: the options of a token,  *)
(* the recognized options, the options that end parsing                    *)

Range(seq) == {seq[i] : i \in DOMAIN seq}

\* a token that is an option token: it starts with '-' and is neither '-' nor '--'
IsOptionToken(t) == StartsWith(t, <<"-">>) /\ t # T_dash /\ t # T_dashdash

\* the options of an option token: one long name (kept with the second dash,
\* as the parser compares it), or the characters of a cluster
OptionsOf(t) ==
    IF StartsWith(t, <<"-", "-">>) THEN <<SubSeq(t, 2, Len(t))>>
    ELSE [i \in 1..(Len(t) - 1) |-> <<t[i + 1]>>]

HaltingOpts == {<<"h">>, L_help, L_get_trash}

RecognizedOpts ==
    {<<"f">>, L_force, <<"d">>, L_dir, <<"r">>, L_recursive, <<"v">>, L_verbose,
     <<"i">>, L_interactive, L_interactive_always, L_interactive_yes,
     <<"I">>, L_interactive_once,
     L_interactive_never, L_interactive_no, L_interactive_none,
     <<"c">>, L_recycle, L_direct, <<"s">>, L_shred, L_dryrun} \cup HaltingOpts

\* the token has an option that is not recognized
HasUnrecognized(t) ==
    IsOptionToken(t) /\ \E i \in DOMAIN OptionsOf(t) : OptionsOf(t)[i] \notin RecognizedOpts

\* read left to right, the first option of the token that is halting or
\* unrecognized is a halting one
Halts(t) ==
    /\ IsOptionToken(t)
    /\ \E i \in DOMAIN OptionsOf(t) :
          /\ OptionsOf(t)[i] \in HaltingOpts
          /\ \A j \in 1..(i - 1) : OptionsOf(t)[j] \in RecognizedOpts

\* read left to right, the first option of the token that is halting or
\* unrecognized is an unrecognized one
Fails(t) ==
    /\ IsOptionToken(t)
    /\ \E i \in DOMAIN OptionsOf(t) :
          /\ OptionsOf(t)[i] \notin RecognizedOpts
          /\ \A j \in 1..(i - 1) : OptionsOf(t)[j] \notin HaltingOpts

\* the stream has the token '--' among its first n tokens
DashDashWithin(stream, n) == \E k \in 1..n : stream[k] = T_dashdash

\* token i of the stream is met as an option token: no '--' and no halting
\* option comes before it
MetAsOption(stream, i) ==
    \A j \in 1..(i - 1) : stream[j] # T_dashdash /\ ~Halts(stream[j])

RECURSIVE ExpectedTargets(_)
\* the non-option tokens met before the first '--', then the tokens after it
ExpectedTargets(stream) ==
    IF stream = <<>> THEN <<>>
    ELSE IF Head(stream) = T_dashdash THEN Tail(stream)
    ELSE IF Head(stream) = T_dash THEN ExpectedTargets(Tail(stream))
    ELSE IF ~StartsWith(Head(stream), <<"-">>)
        THEN <<Head(stream)>> \o ExpectedTargets(Tail(stream))
    ELSE IF Halts(Head(stream)) THEN <<>>
    ELSE ExpectedTargets(Tail(stream))

\* the requests earlier calls of the process returned
ReturnedBefore == {history[i].conf : i \in {j \in DOMAIN history : history[j].outcome = "returned"}}

\* the flags that end parsing
Halted(c) == c.help \/ c.get_trash

----------------------------------------------------------------------------
(* Claims on parse_opts, under Spec *)

\* C1: for every token stream without an unrecognized option, parse_opts
\* succeeds and the targets of the returned request are, in order, the
\* non-option tokens met before the first '--' followed by the tokens after
\* that '--'; '--' and '-' are no targets.
C1_TargetsAreTheStreamsTargets ==
    (pc \in {"returned", "raised"} /\ \A i \in DOMAIN opts : ~HasUnrecognized(opts[i]))
        => /\ pc = "returned"
           /\ TargetsOf(conf, ExecConfig_targets) = ExpectedTargets(opts)

\* C2, as stated: a token stream that contains an unrecognized option token
\* makes parse_opts fail, whatever comes before or after it: no call on such
\* a stream returns.
C2_AnyUnrecognizedFails ==
    pc = "returned" => \A i \in DOMAIN opts : ~HasUnrecognized(opts[i])

\* C2, amended: a token stream in which an unrecognized option is met (no
\* '--' token and no help or get-trash option comes before it, in an earlier
\* token or earlier in its cluster) makes parse_opts fail with OptParseError,
\* whatever valid tokens come before or after it.
C2_MetUnrecognizedFails ==
    pc = "returned" => \A i \in DOMAIN opts : ~(Fails(opts[i]) /\ MetAsOption(opts, i))

\* C2 witness: parse_opts has raised on an unrecognized option that has a
\* valid option before it and a token after it.
C2_Witness ==
    /\ pc = "raised"
    /\ 1 < pos /\ pos < Len(opts)
    /\ Fails(opts[pos])
    /\ conf # ExecConfig

\* C3: once a help option or get-trash is processed, parsing halts: the step
\* that sets the flag changes no other flag and no target and ends the call,
\* no later step of the call follows, and the request is returned with what
\* was accumulated before.
C3_HelpHalts ==
    /\ [](Halted(conf) => pc = "returned")
    /\ [][/\ (~Halted(conf) /\ Halted(conf'))
                => /\ [conf' EXCEPT !.help = FALSE, !.get_trash = FALSE] = conf
                   /\ ExecConfig_targets' = ExecConfig_targets
          /\ Halted(conf) => calls' = calls + 1]_vars

\* C3 witness: '-fh-' after a target and before another token has returned
\* force and help without reading the trailing '-' or the token after it.
C3_Witness ==
    /\ pc = "returned"
    /\ pos < Len(opts) /\ opts[pos] = T_fh_
    /\ cluster = <<<<"h">>, <<"-">>>>
    /\ conf.force /\ conf.help /\ ~conf.read_targets
    /\ ExecConfig_targets # <<>>

\* C4: after the token '--' is consumed no remaining token changes a flag or
\* raises a parse error: the step that consumes it appends all the remaining
\* tokens to the targets, and the call then returns.
C4_RestAreTargets ==
    /\ [](DashDashWithin(opts, pos)
            => pc \in {"loop", "returned"} /\ pos = Len(opts) /\ cluster = <<>>)
    /\ [][/\ (pc = "loop" /\ pos < Len(opts) /\ opts[pos + 1] = T_dashdash /\ pos' # pos)
                => /\ conf' = conf
                   /\ ExecConfig_targets'
                        = ExecConfig_targets \o SubSeq(opts, pos + 2, Len(opts))
          /\ (DashDashWithin(opts, pos) /\ calls' = calls)
                => /\ conf' = conf
                   /\ ExecConfig_targets' = ExecConfig_targets
                   /\ pc' = "returned"]_vars

\* C4 witness: a call has returned after a '--' that was followed by '--help'
\* or '-w', which is now a target, and help is not set.
C4_Witness ==
    /\ pc = "returned"
    /\ \E k \in 1..(Len(opts) - 1) :
          /\ opts[k] = T_dashdash
          /\ MetAsOption(opts, k)
          /\ opts[k + 1] \in {T_help, T_w}
          /\ opts[k + 1] \in Range(ExecConfig_targets)
    /\ ~conf.help

\* C5: a request that was returned keeps its targets when parse_opts is
\* called again: no step changes the targets of a request an earlier call
\* returned.
C5_ReturnedRequestsKeepTargets ==
    [][\A r \in ReturnedBefore :
          TargetsOf(r, ExecConfig_targets') = TargetsOf(r, ExecConfig_targets)]_vars

\* C6: a parse_opts call that fails leaves no trace: when it has raised, the
\* requests earlier calls returned, and the request a later call starts
\* from, have the targets they had when the failed call started.
C6_FailedCallLeavesNoTrace ==
    pc = "raised"
        => \A r \in ReturnedBefore \cup {ExecConfig} :
              TargetsOf(r, ExecConfig_targets) = TargetsOf(r, pre_targets)

----------------------------------------------------------------------------
(* What the documentation says of a list of configuration files *)

\* the [trash_path] declarations of the files: file i declares option n
DeclsOf(files) ==
    UNION {{<<i, n>> : n \in DOMAIN files[i].trash_path} : i \in DOMAIN files}

\* option names are compared without regard to case
SameKey(k1, k2) == OptionXForm(k1) = OptionXForm(k2)

\* no later file declares the key of declaration d again
IsLastDecl(files, d) ==
    \A e \in DeclsOf(files) :
        e[1] > d[1] => ~SameKey(files[e[1]].trash_path[e[2]].key,
                                 files[d[1]].trash_path[d[2]].key)

\* the number of entries of seq equal to x
Count(seq, x) == Cardinality({i \in DOMAIN seq : seq[i] = x})

\* the cutoff the files define: that of the last file that defines one
ExpectedCutoff(files) ==
    LET defining == {i \in DOMAIN files : files[i].exists /\ files[i].cutoff # None}
    IN  IF defining = {} THEN 3
        ELSE IntOf(files[CHOOSE i \in defining : \A j \in defining : j <= i].cutoff)

----------------------------------------------------------------------------
(* Claims on load_app_config, under SpecLoad *)

\* C7: the cutoff load_app_config returns is the cutoff value of the last
\* file of the list that defines [prompt] cutoff, and the default 3 when no
\* file defines it.
C7_LastCutoffWins ==
    lpc = "done" => app_conf.cutoff = ExpectedCutoff(file_names)

\* C7 witness: files that define 9, then 5, then an existing file without a
\* cutoff, have given 5.
C7_Witness ==
    /\ lpc = "done"
    /\ Len(file_names) = 3
    /\ file_names[1].cutoff = <<"9">>
    /\ file_names[2].cutoff = <<"5">>
    /\ file_names[3].exists /\ file_names[3].cutoff = None
    /\ app_conf.cutoff = 5

\* C8, as stated: every path declared by any key of a [trash_path] section
\* of any file is present, expanded, in the returned trash directories.
C8_EveryDeclaredPathPresent ==
    lpc = "done"
        => \A d \in DeclsOf(file_names) :
              Expand(file_names[d[1]].trash_path[d[2]].value) \in Range(app_conf.trashy_dirs)

\* C8, amended: every path declared by a key of a [trash_path] section of a
\* file is present, expanded, in the returned trash directories, unless a
\* later file declares the same key (names compared without regard to case).
C8_EveryLastDeclaredPathPresent ==
    lpc = "done"
        => \A d \in DeclsOf(file_names) :
              IsLastDecl(file_names, d)
                  => Expand(file_names[d[1]].trash_path[d[2]].value)
                         \in Range(app_conf.trashy_dirs)

\* C8 witness: two files have declared different keys with different paths,
\* one of them with a variable, and both expanded paths are returned.
C8_Witness ==
    /\ lpc = "done"
    /\ \E i, j \in DOMAIN file_names :
          /\ i < j
          /\ Len(file_names[i].trash_path) = 1 /\ Len(file_names[j].trash_path) = 1
          /\ file_names[i].trash_path[1] = [key |-> K_home, value |-> P_var]
          /\ file_names[j].trash_path[1] = [key |-> K_tmp, value |-> P_tilde]
          /\ Expand(P_var) \in Range(app_conf.trashy_dirs)
          /\ Expand(P_tilde) \in Range(app_conf.trashy_dirs)
          /\ Expand(P_var) # P_var /\ Expand(P_tilde) # P_tilde

\* C9: the returned trash directories have one entry for each key declared,
\* the expanded value of the last file that declares the key: a key two
\* files declare gives the later value and no entry for the earlier one,
\* and the keys declared once all contribute.
C9_OneEntryPerKey ==
    lpc = "done"
        => \A path \in Range(app_conf.trashy_dirs) \cup {Expand(v) : v \in RawPaths} :
              Count(app_conf.trashy_dirs, path)
                  = Cardinality({d \in DeclsOf(file_names) :
                                    /\ IsLastDecl(file_names, d)
                                    /\ Expand(file_names[d[1]].trash_path[d[2]].value) = path})

\* C9 witness: file 1 has 'home = /n', a later file 'home = ~', and the
\* result is the home directory alone.
C9_Witness ==
    /\ lpc = "done"
    /\ \E i, j \in DOMAIN file_names :
          /\ i < j
          /\ file_names[i].trash_path = <<[key |-> K_home, value |-> P_n]>>
          /\ file_names[j].trash_path = <<[key |-> K_home, value |-> P_tilde]>>
    /\ app_conf.trashy_dirs = <<Environ[N_HOME]>>

\* C10: the returned trash directories contain no duplicate and no empty
\* string.
C10_NoDuplicateNoEmpty ==
    lpc = "done"
        => /\ \A i, j \in DOMAIN app_conf.trashy_dirs :
                 app_conf.trashy_dirs[i] = app_conf.trashy_dirs[j] => i = j
           /\ \A i \in DOMAIN app_conf.trashy_dirs : app_conf.trashy_dirs[i] # <<>>

\* C11: load_app_config never fails: no list of files, with a file that is
\* missing or malformed or a cutoff that is not an integer, makes it raise.
C11_LoadNeverFails == lpc # "raised"

----------------------------------------------------------------------------
(* What the documentation says of the expansion of a path *)

\* a piece that is a reference to a variable, and the name it refers to
IsReference(piece) == Len(piece) > 1 /\ piece[1] = "$"
ReferenceName(piece) ==
    IF piece[2] = "{" THEN SubSeq(piece, 3, Len(piece) - 1) ELSE SubSeq(piece, 2, Len(piece))

\* one pass over the pieces: a reference to a set variable gives its value,
\* anything else is left as it is written
Substitute(piece) ==
    IF IsReference(piece) /\ ReferenceName(piece) \in DOMAIN Environ
        THEN Environ[ReferenceName(piece)]
    ELSE piece

RECURSIVE Substituted(_)
Substituted(ps) == IF ps = <<>> THEN <<>> ELSE Substitute(Head(ps)) \o Substituted(Tail(ps))

\* the path starts with '~' alone or with '~/'
TildeFirst(path) == path # <<>> /\ path[1] = "~" /\ (Len(path) = 1 \/ path[2] = "/")

----------------------------------------------------------------------------
(* Claims on the expansion of a path, under SpecExpand *)

\* C12, as stated: a reference to an unset variable stays literal, the text
\* a substitution inserts is not expanded again, and '~' is replaced by the
\* home directory only when it starts the raw path, not when the value of a
\* variable puts it at the start.
C12_TildeOfRawPathOnly ==
    xpc = "done"
        => expanded = IF TildeFirst(Concat(pieces))
                          THEN Environ[N_HOME] \o DropFirst(Substituted(pieces))
                      ELSE Substituted(pieces)

\* C12, amended: a reference to an unset variable stays literal and no '$'
\* of a variable's value or of the substituted home directory is read as a
\* reference; '~' is replaced by the home directory when it starts the path
\* after the variables are substituted, whether the raw path starts with it
\* or the value of a variable puts it there.
C12_TildeAfterSubstitution ==
    xpc = "done"
        => expanded = IF TildeFirst(Substituted(pieces))
                          THEN Environ[N_HOME] \o DropFirst(Substituted(pieces))
                      ELSE Substituted(pieces)

\* C12 witness: '$T/$U', with T set to '~', U unset and a home directory
\* with a '$', has given the home directory, '/' and '$U', the '$' of the
\* home directory and of '$U' left as text.
C12_Witness ==
    /\ xpc = "done"
    /\ pieces = <<X_T, X_slash, X_U>>
    /\ expanded = Environ[N_HOME] \o X_slash \o X_U
    /\ \E i \in DOMAIN Environ[N_HOME] : Environ[N_HOME][i] = "$"

----------------------------------------------------------------------------
(* Claims on run, under SpecRun *)

\* C13: whenever the request has help set, run returns 0, writes exactly
\* the usage text to out and nothing to err and takes no removal action,
\* whatever the other flags and the targets are.
C13_HelpPrintsUsage ==
    (rpc \in {"returned", "raised"} /\ run_opts.help)
        => /\ rpc = "returned"
           /\ exit_code = <<0>>
           /\ out = <<Usage>>
           /\ err = <<>>
           /\ effects = <<>>

\* C13 witness: run has returned for a request with help, force and shred
\* set and a target that is a file.
C13_Witness ==
    /\ rpc = "returned"
    /\ run_opts.help /\ run_opts.force /\ run_opts.shred
    /\ \E i \in DOMAIN ExecConfig_targets : fs[ExecConfig_targets[i]] = "file"
    /\ out = <<Usage>>

----------------------------------------------------------------------------
(* What the documentation says of the removal *)

\* the targets of the request run works on
RunTargets == TargetsOf(run_opts, ExecConfig_targets)

\* the documented action for a target that is a file
Routed(o, kind) ==
    IF o.shred THEN "Shred"
    ELSE IF o.trash_mode = "ALWAYS" \/ (o.trash_mode = "NORMAL" /\ kind = "file_in_trashy_dir")
        THEN "Trash"
    ELSE "Rm"

\* the positions of effects with a prompt, and with a destructive action
Prompts == {i \in DOMAIN effects : effects[i].action = "Prompt"}
Destructive == {i \in DOMAIN effects : effects[i].action \in {"Shred", "Trash", "Rm"}}

\* the number of targets that exist
ActedOn == Cardinality({i \in DOMAIN RunTargets : fs[RunTargets[i]] # "missing"})

\* run has ended, by a return or by an exception
RunEnded == rpc \in {"returned", "raised"}

\* C15: for every existing target that is not a directory the routed action
\* is Shred when shred is set, else Trash when the trash mode is Always or
\* it is Normal and the target is under a configured trash directory, else Rm.
C15_RoutedByPrecedence ==
    (RunEnded /\ ~run_opts.help)
        => \A i \in DOMAIN RunTargets :
               fs[RunTargets[i]] \in {"file", "file_in_trashy_dir"}
                   => \E j \in Destructive :
                          /\ effects[j].target = RunTargets[i]
                          /\ effects[j].action = Routed(run_opts, fs[RunTargets[i]])

C17_OnePromptAboveCutoff ==
    (RunEnded /\ ~run_opts.help /\ ~run_opts.force /\ run_opts.interactive_mode = "NORMAL")
        => IF ActedOn > run_conf.cutoff
               THEN /\ Cardinality(Prompts) = 1
                    /\ \A i \in Prompts : \A j \in Destructive : i < j
           ELSE ~run_opts.recursive => Prompts = {}

----------------------------------------------------------------------------
(* Claims on the documented options, under SpecOptions *)

\* parse_opts has ended, by a return or by an exception
ParseEnded == pc \in {"returned", "raised"}

\* C14: a token stream with '--version', met as an option among tokens that
\* are all valid, is parsed without a parse error, and the request records
\* that the version was asked for.
C14_VersionAccepted ==
    (ParseEnded /\ \E i \in DOMAIN opts : opts[i] = T_version /\ MetAsOption(opts, i))
        => pc = "returned" /\ conf.version

\* the flags of a request
Flags ==
    {"force", "handle_dirs", "recursive", "verbose", "shred", "dry_run", "read_targets",
     "help", "get_trash"}

\* the options of the interactive modes and of the trash modes, as documented
AlwaysOpts == {<<"i">>, L_interactive, L_interactive_always, L_interactive_yes}
OnceOpts == {<<"I">>, L_interactive_once}
NeverOpts == {L_interactive_never, L_interactive_no, L_interactive_none}
RecycleOpts == {<<"c">>, L_recycle}
DirectOpts == {L_direct}

\* the modes after option o is processed, when they were im and tm before
InteractiveAfter(im, o) ==
    IF o \in AlwaysOpts THEN "ALWAYS"
    ELSE IF o \in OnceOpts THEN "NORMAL"
    ELSE IF o \in NeverOpts THEN "NEVER"
    ELSE im
TrashAfter(tm, o) ==
    IF o \in RecycleOpts THEN "ALWAYS" ELSE IF o \in DirectOpts THEN "NEVER" ELSE tm

\* C19: a call starts with both modes Normal; during the call no step sets
\* a flag that is true back to false; a step that processes a mode option
\* gives its mode the value of that option and leaves the other mode, and
\* every other step leaves both modes, so that the modes are those of the
\* last mode options processed, whatever force is.
C19_FlagsOnlyRiseModesFollowLast ==
    [][IF calls' # calls
           THEN conf'.interactive_mode = "NORMAL" /\ conf'.trash_mode = "NORMAL"
       ELSE /\ \A f \in Flags : conf[f] => conf'[f]
            /\ IF pc = "for" /\ cluster # <<>>
                   THEN /\ conf'.interactive_mode
                             = InteractiveAfter(conf.interactive_mode, Head(cluster))
                        /\ conf'.trash_mode = TrashAfter(conf.trash_mode, Head(cluster))
               ELSE /\ conf'.interactive_mode = conf.interactive_mode
                    /\ conf'.trash_mode = conf.trash_mode]_vars

\* C19 witness: a call has returned for a stream with '-i' before
\* '--interactive=never' and a flag option: the mode is Never, the flag set.
C19_Witness ==
    /\ pc = "returned"
    /\ \E i, j \in DOMAIN opts :
          i < j /\ opts[i] = T_i /\ opts[j] = T_interactive_never
    /\ conf.interactive_mode = "NEVER"
    /\ conf.verbose

----------------------------------------------------------------------------
(* Claims on clusters of short options, under SpecCluster *)

\* the call on the stream with a cluster separated has ended
SplitEnded == calls = 2 /\ ParseEnded

\* the call has ended as the call before it did, with the same request
SameAsBefore ==
    /\ pc = history[1].outcome
    /\ conf = history[1].conf
    /\ TargetsOf(conf, ExecConfig_targets) = history[1].targets

\* C18, as stated: parse_opts of a stream with the cluster '-c1..cn' of
\* recognized short options at some position returns the same request as
\* parse_opts of the stream with the tokens '-c1', ..., '-cn' at that
\* position, including when one of the options is 'h'.
C18_ClusterIsSeparateTokens == SplitEnded => SameAsBefore

\* C18, amended: the same, for a cluster at a position with no '--' token
\* before it.
C18_ClusterBeforeDashDash ==
    SplitEnded
        => \A k \in DOMAIN history[1].opts :
               (/\ IsCluster(history[1].opts[k])
                /\ opts = SplitAt(history[1].opts, k)
                /\ ~DashDashWithin(history[1].opts, k - 1))
                   => SameAsBefore

\* C18 witness: 'a', '-f', '-h', '-v', '-w' has returned as 'a', '-fhv', '-w'
\* did: with the target, force and help set, verbose not.
C18_Witness ==
    /\ SplitEnded
    /\ pc = "returned"
    /\ history[1].opts = <<T_a, T_fhv, T_w>>
    /\ Len(opts) = 5
    /\ conf.force /\ conf.help /\ ~conf.verbose
    /\ SameAsBefore

====
